---- MODULE Spec2Model ----
(***************************************************************************)
(* Decoding of the interface-description dialect of everestrs-build:       *)
(* src/everestrs/everestrs-build/src/schema/interface.rs.                  *)
(*                                                                         *)
(* The decoders are pure functions from a generic document tree            *)
(* (serde_yaml::Value) to a Result.  They are written here as operators,   *)
(* computed in the order the code (and the code serde derives for the      *)
(* annotated types) computes them.  The state machine draws a document,    *)
(* and one action per entry point applies the decoder to it.               *)
(***************************************************************************)
EXTENDS Integers, Sequences, FiniteSets, TLC

VARIABLES target, node, pc, out

vars == <<target, node, pc, out>>

(***************************************************************************)
(* serde_yaml::Value: the generic document tree.  A mapping is an ordered  *)
(* list of entries with distinct keys (serde_yaml::Mapping is an indexmap).*)
(* A number is an integer (YInt) or has a fractional part (YFloat(h)       *)
(* stands for h + 0.5).                                                    *)
(***************************************************************************)
YNull == [k |-> "null"]
YBool(b) == [k |-> "bool", b |-> b]
YInt(n) == [k |-> "int", n |-> n]
YFloat(h) == [k |-> "float", h |-> h]
YStr(s) == [k |-> "string", s |-> s]
YSeq(q) == [k |-> "sequence", q |-> q]
YMap(m) == [k |-> "mapping", m |-> m]
Entry(key, val) == [key |-> key, val |-> val]

(***************************************************************************)
(* Result<T, E> and Option<T>.  An error carries serde's message kind and  *)
(* the field, variant or value it names ("" for the custom messages).      *)
(***************************************************************************)
Ok(v) == [ok |-> TRUE, val |-> v]
Err(msg, at) == [ok |-> FALSE, err |-> msg, at |-> at]
None == [some |-> FALSE]
Some(v) == [some |-> TRUE, v |-> v]

(***************************************************************************)
(* serde_yaml::Mapping operations used by Variable::deserialize.           *)
(***************************************************************************)
IndexOf(m, key) ==
    IF \E i \in 1..Len(m) : m[i].key = key
    THEN CHOOSE i \in 1..Len(m) : m[i].key = key
    ELSE 0

ContainsKey(m, key) == IndexOf(m, key) # 0

Get(m, key) == m[IndexOf(m, key)].val

\* Mapping::remove is indexmap's swap_remove: the last entry takes the place
\* of the removed one.
Remove(m, key) ==
    LET i == IndexOf(m, key)
        n == Len(m)
    IN  IF i = 0 THEN m
        ELSE IF i = n THEN SubSeq(m, 1, n - 1)
        ELSE SubSeq(m, 1, i - 1) \o <<m[n]>> \o SubSeq(m, i + 1, n - 1)

\* Mapping::insert of a key the mapping does not hold appends the entry.
Insert(m, key, val) ==
    IF ContainsKey(m, key)
    THEN [j \in 1..Len(m) |-> IF m[j].key = key THEN Entry(key, val) ELSE m[j]]
    ELSE Append(m, Entry(key, val))

(***************************************************************************)
(* The declared fields of the records, in declaration order.  mode is      *)
(* "required" (a plain field), "option" (an Option<T>: absent or null is   *)
(* None) or "default" (#[serde(default)]: absent is T::default()).  The    *)
(* names are the serialized ones (rename_all = "camelCase", rename).       *)
(***************************************************************************)
Field(name, ty, mode) == [name |-> name, ty |-> ty, mode |-> mode]

InterfaceFields ==
    << Field("description", "String", "required"),
       Field("cmds", "BTreeMap<String, Command>", "default"),
       Field("vars", "BTreeMap<String, Variable>", "default"),
       Field("errors", "Vec<ErrorEntry>", "default") >>

CommandFields ==
    << Field("description", "String", "required"),
       Field("arguments", "BTreeMap<String, Variable>", "default"),
       Field("result", "Variable", "option") >>

NumberOptionsFields ==
    << Field("minimum", "f64", "option"),
       Field("maximum", "f64", "option"),
       Field("default", "f64", "option") >>

IntegerOptionsFields ==
    << Field("minimum", "i64", "option"),
       Field("maximum", "i64", "option"),
       Field("default", "i64", "option") >>

ArrayOptionsFields ==
    << Field("minItems", "usize", "option"),
       Field("maxItems", "usize", "option"),
       Field("items", "Variable", "option") >>

ObjectOptionsFields ==
    << Field("properties", "BTreeMap<String, Variable>", "default"),
       Field("required", "HashSet<String>", "default"),
       Field("additionalProperties", "bool", "default"),
       Field("$ref", "String", "option") >>

StringOptionsFields ==
    << Field("pattern", "String", "option"),
       Field("format", "StringFormat", "option"),
       Field("maxLength", "usize", "option"),
       Field("minLength", "usize", "option"),
       Field("enum", "Vec<String>", "option"),
       Field("default", "String", "option"),
       Field("$ref", "String", "option") >>

ErrorEntryFields ==
    << Field("reference", "String", "required") >>

\* #[serde(deny_unknown_fields)] is on every record but ErrorEntry.
InterfaceDenyUnknown == TRUE
CommandDenyUnknown == TRUE
OptionsDenyUnknown == TRUE
ErrorEntryDenyUnknown == FALSE

(***************************************************************************)
(* enum Type, internally tagged by "type": the variant names under         *)
(* rename_all = "camelCase", and each variant's content.                   *)
(***************************************************************************)
TypeNames == {"null", "boolean", "string", "number", "integer", "array", "object"}

VariantOf(name) ==
    CASE name = "null" -> "Null"
      [] name = "boolean" -> "Boolean"
      [] name = "string" -> "String"
      [] name = "number" -> "Number"
      [] name = "integer" -> "Integer"
      [] name = "array" -> "Array"
      [] name = "object" -> "Object"

IsUnitVariant(name) == name \in {"null", "boolean"}

OptionsOf(name) ==
    CASE name = "string" -> "StringOptions"
      [] name = "number" -> "NumberOptions"
      [] name = "integer" -> "IntegerOptions"
      [] name = "array" -> "ArrayOptions"
      [] name = "object" -> "ObjectOptions"

FieldNames(fields) == {fields[i].name : i \in 1..Len(fields)}

FieldIndex(fields, name) ==
    IF name \in FieldNames(fields)
    THEN CHOOSE i \in 1..Len(fields) : fields[i].name = name
    ELSE 0

MinOf(S) == CHOOSE i \in S : \A j \in S : i <= j

(***************************************************************************)
(* Scalars and collections of scalars, as serde decodes them.              *)
(***************************************************************************)
F64(whole, half) == [whole |-> whole, half |-> half]

InvalidType(v) == Err("invalid type", v.k)

StringDeserialize(v) ==
    IF v.k = "string" THEN Ok(v.s) ELSE InvalidType(v)

\* f64 takes any number; an integer is converted.
F64Deserialize(v) ==
    CASE v.k = "int" -> Ok(F64(v.n, FALSE))
      [] v.k = "float" -> Ok(F64(v.h, TRUE))
      [] OTHER -> InvalidType(v)

I64Deserialize(v) ==
    IF v.k = "int" THEN Ok(v.n) ELSE InvalidType(v)

UsizeDeserialize(v) ==
    CASE v.k = "int" /\ v.n >= 0 -> Ok(v.n)
      [] v.k = "int" /\ v.n < 0 -> Err("invalid value", v.k)
      [] OTHER -> InvalidType(v)

BoolDeserialize(v) ==
    IF v.k = "bool" THEN Ok(v.b) ELSE InvalidType(v)

StringFormatDeserialize(v) ==
    CASE v.k = "string" /\ v.s = "date-time" -> Ok("DateTime")
      [] v.k = "string" /\ v.s # "date-time" -> Err("unknown variant", v.s)
      [] OTHER -> InvalidType(v)

\* Vec<String>: the elements in order; the first element that is no string
\* fails the decode.
VecStringDeserialize(v) ==
    IF v.k # "sequence" THEN InvalidType(v)
    ELSE LET bad == {i \in 1..Len(v.q) : v.q[i].k # "string"}
         IN  IF bad # {} THEN InvalidType(v.q[MinOf(bad)])
             ELSE Ok([i \in 1..Len(v.q) |-> v.q[i].s])

\* HashSet<String>: a repeated element is inserted once.
HashSetStringDeserialize(v) ==
    LET r == VecStringDeserialize(v)
    IN  IF r.ok THEN Ok({r.val[i] : i \in 1..Len(r.val)}) ELSE r

(***************************************************************************)
(* The decoders.  Decode(ty, v) is <ty as Deserialize>::deserialize(v).    *)
(* A decoder is written in two parts: Tasks(ty, v) lists the parts of v    *)
(* it hands to other decoders, and Assemble(ty, v, kids) is its result     *)
(* given their results, kids, in the same order.                           *)
(***************************************************************************)
Task(ty, v) == [ty |-> ty, v |-> v]

RecordTypes ==
    {"Interface", "Command", "ErrorEntry", "StringOptions", "NumberOptions",
     "IntegerOptions", "ArrayOptions", "ObjectOptions"}

FieldsOf(ty) ==
    CASE ty = "Interface" -> InterfaceFields
      [] ty = "Command" -> CommandFields
      [] ty = "ErrorEntry" -> ErrorEntryFields
      [] ty = "StringOptions" -> StringOptionsFields
      [] ty = "NumberOptions" -> NumberOptionsFields
      [] ty = "IntegerOptions" -> IntegerOptionsFields
      [] ty = "ArrayOptions" -> ArrayOptionsFields
      [] ty = "ObjectOptions" -> ObjectOptionsFields

DenyUnknown(ty) ==
    CASE ty = "Interface" -> InterfaceDenyUnknown
      [] ty = "Command" -> CommandDenyUnknown
      [] ty = "ErrorEntry" -> ErrorEntryDenyUnknown
      [] OTHER -> OptionsDenyUnknown

\* The element type of the collections of records and of Variables.
ElementOf(ty) ==
    CASE ty = "BTreeMap<String, Variable>" -> "Variable"
      [] ty = "BTreeMap<String, Command>" -> "Command"
      [] ty = "Vec<ErrorEntry>" -> "ErrorEntry"

\* The value of a field the mapping does not hold.
FieldDefault(field) ==
    CASE field.mode = "option" -> None
      [] field.ty = "bool" -> FALSE
      [] field.ty = "Vec<ErrorEntry>" -> <<>>
      [] OTHER -> {}

\* The derived Deserialize of a record visits the entries in document
\* order: the value of a key that is no field is skipped, a null given for
\* an Option<T> is None, and any other value is decoded as the field's type.
StructTasks(fields, m) ==
    [i \in 1..Len(m) |->
        LET f == FieldIndex(fields, m[i].key)
        IN  IF f = 0 THEN Task("IgnoredAny", m[i].val)
            ELSE IF fields[f].mode = "option" /\ m[i].val.k = "null"
                 THEN Task("IgnoredAny", m[i].val)
                 ELSE Task(fields[f].ty, m[i].val)]

\* An unknown key fails under deny_unknown_fields, and the first failure in
\* document order is the result; then a missing required field fails, in
\* declaration order.
StructAssemble(fields, deny, m, kids) ==
    LET res(i) ==
            LET f == FieldIndex(fields, m[i].key)
            IN  IF f = 0
                THEN IF deny THEN Err("unknown field", m[i].key) ELSE Ok(None)
                ELSE IF fields[f].mode = "option" /\ kids[i].ok /\ m[i].val.k # "null"
                     THEN Ok(Some(kids[i].val))
                     ELSE kids[i]
        bad == {i \in 1..Len(m) : ~res(i).ok}
        missing == {f \in 1..Len(fields) :
                       fields[f].mode = "required" /\ ~ContainsKey(m, fields[f].name)}
    IN  IF bad # {} THEN res(MinOf(bad))
        ELSE IF missing # {} THEN Err("missing field", fields[MinOf(missing)].name)
        ELSE Ok([n \in FieldNames(fields) |->
                    IF ContainsKey(m, n)
                    THEN res(IndexOf(m, n)).val
                    ELSE FieldDefault(fields[FieldIndex(fields, n)])])

\* A variant that reports the last failure in document order.
LastFailure(kids) == kids[CHOOSE i \in 1..Len(kids) :
                             ~kids[i].ok /\ \A j \in 1..Len(kids) : ~kids[j].ok => j <= i]

\* BTreeMap<String, T> and Vec<T>: the values in document order; the first
\* failure wins.
FirstFailure(kids) == kids[MinOf({i \in 1..Len(kids) : ~kids[i].ok})]

AllOk(kids) == \A i \in 1..Len(kids) : kids[i].ok

MapAssemble(v, kids) ==
    IF v.k # "mapping" THEN InvalidType(v)
    ELSE IF ~AllOk(kids) THEN FirstFailure(kids)
    ELSE Ok({Entry(v.m[i].key, kids[i].val) : i \in 1..Len(v.m)})

VecAssemble(v, kids) ==
    IF v.k # "sequence" THEN InvalidType(v)
    ELSE IF ~AllOk(kids) THEN FirstFailure(kids)
    ELSE Ok([i \in 1..Len(kids) |-> kids[i].val])

\* The content of an internally tagged enum: the entries other than the tag,
\* in document order.
TagContent(m) ==
    LET NotTag(e) == e.key # "type"
    IN  SelectSeq(m, NotTag)

TagOk(m) ==
    /\ ContainsKey(m, "type")
    /\ Get(m, "type").k = "string"
    /\ Get(m, "type").s \in TypeNames

\* The derived Deserialize of Type, from a mapping: the tag is read first
\* (the other entries are buffered), then the variant's content.  A unit
\* variant (Null, Boolean) is decoded by a visitor that skips every
\* remaining entry; the other variants decode their options record from
\* the remaining entries.
TypeTasks(m) ==
    IF TagOk(m) /\ ~IsUnitVariant(Get(m, "type").s)
    THEN <<Task(OptionsOf(Get(m, "type").s), YMap(TagContent(m)))>>
    ELSE <<>>

TypeAssemble(m, kids) ==
    IF ~ContainsKey(m, "type") THEN Err("missing field", "type")
    ELSE LET tag == Get(m, "type")
         IN  IF tag.k # "string" THEN InvalidType(tag)
             ELSE IF tag.s \notin TypeNames THEN Err("unknown variant", tag.s)
             ELSE IF IsUnitVariant(tag.s) THEN Ok([kind |-> VariantOf(tag.s)])
             ELSE IF kids[1].ok
                  THEN Ok([kind |-> VariantOf(tag.s), opts |-> kids[1].val])
                  ELSE kids[1]

(***************************************************************************)
(* impl Deserialize for Variable.                                          *)
(***************************************************************************)
Single(t) == [tag |-> "Single", ty |-> t]
Multiple(ts) == [tag |-> "Multiple", types |-> ts]

\* map.remove("description"), decoded as a String when present.
DescriptionDeserialize(m) ==
    IF ~ContainsKey(m, "description") THEN Ok(None)
    ELSE IF StringDeserialize(Get(m, "description")).ok
         THEN Ok(Some(Get(m, "description").s))
         ELSE Err("'description' is not a String'", "")

\* A variant whose untyped node is a string.
DefaultArgTypeString == YStr("string")

\* The type of a node that has no "type" key.
DefaultArgType == YStr("object")

\* A variant that takes the default for a type it cannot use.
ArgTypeLenient(m) ==
    IF ContainsKey(m, "type") /\ Get(m, "type").k \in {"string", "sequence"}
    THEN Get(m, "type")
    ELSE YStr("object")

\* map.remove("type").unwrap_or(...), after the description is removed.
ArgType(m) ==
    IF ContainsKey(Remove(m, "description"), "type")
    THEN Get(m, "type")
    ELSE DefaultArgType

\* A variant that leaves the description in the mapping.
RemainingWithDescription(m) == Remove(m, "type")

\* The entries left when "description" and "type" are removed.
Remaining(m) == Remove(Remove(m, "description"), "type")

\* A variant that decodes a string "type" from a new mapping.
SingleMappingAlone(map, val) == Insert(<<>>, "type", val)

\* The mapping a string "type" is decoded from: the node's remaining
\* entries, with the type inserted again.
SingleMapping(map, val) == Insert(map, "type", val)

\* A variant that gives every element the options of the node.
MemberMappingWithOptions(map, t) == Insert(map, "type", t)

\* The mapping an element of a sequence "type" is decoded from: a new
\* mapping that holds the element alone.
MemberMapping(map, t) == Insert(<<>>, "type", t)

\* The Types a Variable node decodes: one for a string "type", one for each
\* element of a sequence "type".
VariableTasks(m) ==
    CASE ArgType(m).k = "string" ->
            <<Task("Type", YMap(SingleMapping(Remaining(m), ArgType(m))))>>
      [] ArgType(m).k = "sequence" ->
            [i \in 1..Len(ArgType(m).q) |->
                Task("Type", YMap(MemberMapping(Remaining(m), ArgType(m).q[i])))]
      [] OTHER -> <<>>

\* The match on arg_type.
ArgumentAssemble(arg_type, kids) ==
    CASE arg_type.k = "string" ->
            IF kids[1].ok THEN Ok(Single(kids[1].val)) ELSE kids[1]
      [] arg_type.k = "sequence" ->
            IF ~AllOk(kids) THEN FirstFailure(kids)
            ELSE Ok(Multiple([i \in 1..Len(kids) |-> kids[i].val]))
      [] OTHER -> Err("'type' must be a sequence or a string.", "")

\* A variant that checks the type before the description.
VariableResultTypeFirst(description, arg) ==
    IF ~arg.ok THEN arg
    ELSE IF ~description.ok THEN description
    ELSE Ok([description |-> description.val, arg |-> arg.val])

\* The order of the checks: the description, then the type.
VariableResult(description, arg) ==
    IF ~description.ok THEN description
    ELSE IF ~arg.ok THEN arg
    ELSE Ok([description |-> description.val, arg |-> arg.val])

VariableAssemble(v, kids) ==
    IF v.k # "mapping" THEN Err("Variable must be a mapping", "")
    ELSE VariableResult(DescriptionDeserialize(v.m),
                        ArgumentAssemble(ArgType(v.m), kids))

Tasks(ty, v) ==
    CASE ty = "Variable" -> IF v.k = "mapping" THEN VariableTasks(v.m) ELSE <<>>
      [] ty = "Type" -> IF v.k = "mapping" THEN TypeTasks(v.m) ELSE <<>>
      [] ty \in RecordTypes ->
            IF v.k = "mapping" THEN StructTasks(FieldsOf(ty), v.m) ELSE <<>>
      [] ty \in {"BTreeMap<String, Variable>", "BTreeMap<String, Command>"} ->
            IF v.k = "mapping"
            THEN [i \in 1..Len(v.m) |-> Task(ElementOf(ty), v.m[i].val)]
            ELSE <<>>
      [] ty = "Vec<ErrorEntry>" ->
            IF v.k = "sequence"
            THEN [i \in 1..Len(v.q) |-> Task(ElementOf(ty), v.q[i])]
            ELSE <<>>
      [] OTHER -> <<>>

Assemble(ty, v, kids) ==
    CASE ty = "Variable" -> VariableAssemble(v, kids)
      [] ty = "Type" -> IF v.k = "mapping" THEN TypeAssemble(v.m, kids) ELSE InvalidType(v)
      [] ty \in RecordTypes ->
            IF v.k = "mapping"
            THEN StructAssemble(FieldsOf(ty), DenyUnknown(ty), v.m, kids)
            ELSE InvalidType(v)
      [] ty \in {"BTreeMap<String, Variable>", "BTreeMap<String, Command>"} ->
            MapAssemble(v, kids)
      [] ty = "Vec<ErrorEntry>" -> VecAssemble(v, kids)
      [] ty = "String" -> StringDeserialize(v)
      [] ty = "f64" -> F64Deserialize(v)
      [] ty = "i64" -> I64Deserialize(v)
      [] ty = "usize" -> UsizeDeserialize(v)
      [] ty = "bool" -> BoolDeserialize(v)
      [] ty = "StringFormat" -> StringFormatDeserialize(v)
      [] ty = "Vec<String>" -> VecStringDeserialize(v)
      [] ty = "HashSet<String>" -> HashSetStringDeserialize(v)
      [] ty = "IgnoredAny" -> Ok(None)

RECURSIVE Decode(_, _)

\* The results of the tasks, in order, as a list.
DecodeTasks(tasks) ==
    [i \in 1..Len(tasks) |-> Decode(tasks[i].ty, tasks[i].v)] \o <<>>

Decode(ty, v) == Assemble(ty, v, DecodeTasks(Tasks(ty, v)))

\* The entry points.
VariableDeserialize(v) == Decode("Variable", v)

TypeDeserialize(v) == Decode("Type", v)

InterfaceDeserialize(v) == Decode("Interface", v)

(***************************************************************************)
(* The documents the decoders are applied to.                              *)
(***************************************************************************)
\* The most option entries of a node, the longest sequence "type", the
\* deepest nesting of Variable nodes and the longest "errors" list.
MaxOpts == 2
MaxTypes == 2
MaxDepth == 2
MaxErrors == 2

\* Option entries with scalar values: each option field of each kind, well
\* typed and ill typed, and a key no record knows.
FlatOptions ==
    << Entry("minimum", YInt(0)),
       Entry("minimum", YFloat(0)),
       Entry("maximum", YInt(10)),
       Entry("maximum", YNull),
       Entry("default", YInt(1)),
       Entry("default", YStr("d")),
       Entry("pattern", YStr("p")),
       Entry("format", YStr("date-time")),
       Entry("format", YStr("time")),
       Entry("maxLength", YInt(3)),
       Entry("minLength", YInt(-1)),
       Entry("enum", YSeq(<<YStr("a"), YStr("b")>>)),
       Entry("$ref", YStr("/r")),
       Entry("$ref", YInt(1)),
       Entry("minItems", YInt(0)),
       Entry("maxItems", YInt(3)),
       Entry("required", YSeq(<<YStr("a"), YStr("a")>>)),
       Entry("additionalProperties", YBool(TRUE)),
       Entry("foo", YInt(1)) >>

\* The lists of at most n entries of list L with distinct keys, in L's order.
RECURSIVE EntryLists(_, _, _)
EntryLists(L, n, lo) ==
    {<<>>} \cup
    IF n = 0 THEN {}
    ELSE UNION {{<<L[i]>> \o t : t \in {u \in EntryLists(L, n - 1, i) :
                                           \A j \in 1..Len(u) : u[j].key # L[i].key}}
                : i \in (lo + 1)..Len(L)}

\* The sequences over S of length at most n.
RECURSIVE SeqsUpTo(_, _)
SeqsUpTo(S, n) ==
    IF n = 0 THEN {<<>>}
    ELSE LET shorter == SeqsUpTo(S, n - 1)
         IN  shorter \cup {Append(q, x) : q \in {r \in shorter : Len(r) = n - 1}, x \in S}

\* Variable nodes without nested Variable nodes.
Leaves ==
    { YMap(<<>>),
      YMap(<<Entry("type", YStr("string"))>>),
      YMap(<<Entry("type", YSeq(<<YStr("integer"), YStr("string")>>))>>),
      YMap(<<Entry("description", YStr("n")), Entry("type", YStr("integer")),
             Entry("minimum", YInt(0))>>),
      YMap(<<Entry("type", YStr("string")), Entry("minimum", YInt(0))>>),
      YMap(<<Entry("type", YStr("boolean")), Entry("minimum", YInt(0))>>),
      YMap(<<Entry("type", YInt(42))>>),
      YStr("x") }

\* Variable nodes nested at most d deep: an array's items, an object's property.
RECURSIVE Nested(_)
Nested(d) ==
    IF d = 0 THEN Leaves
    ELSE Leaves
         \cup {YMap(<<Entry("type", YStr("array")), Entry("items", n)>>) : n \in Nested(d - 1)}
         \cup {YMap(<<Entry("type", YStr("object")),
                      Entry("properties", YMap(<<Entry("a", n)>>))>>) : n \in Nested(d - 1)}

DescriptionChoices ==
    { <<>>,
      <<Entry("description", YStr("x"))>>,
      <<Entry("description", YInt(5))>>,
      <<Entry("description", YMap(<<>>))>>,
      <<Entry("description", YSeq(<<YStr("x")>>))>> }

StringDescriptions == {<<>>, <<Entry("description", YStr("x"))>>}

\* A string "type": the seven kinds, a kind in another case, an unknown name.
TypeStrings == {YStr(n) : n \in TypeNames \cup {"String", "foo"}}

\* An element of a sequence "type".
TypeElements == TypeStrings \cup {YInt(42)}

\* A "type" that is neither a string nor a sequence.
TypeOthers == {YInt(42), YBool(TRUE), YNull, YMap(<<>>)}

TypeEntries(S) == {<<Entry("type", t)>> : t \in S}

\* Option entries that hold a nested Variable node.
NestedOptions ==
    {Entry("items", n) : n \in Nested(MaxDepth - 1)}
    \cup {Entry("properties", YMap(<<Entry("a", n)>>)) : n \in Nested(MaxDepth - 1)}

\* A few option entries of the parent of a sequence "type".
ParentOptions ==
    << Entry("minimum", YInt(0)),
       Entry("$ref", YStr("/r")),
       Entry("additionalProperties", YBool(TRUE)),
       Entry("items", YMap(<<Entry("type", YInt(42))>>)),
       Entry("foo", YInt(1)) >>

\* Nodes with a string "type" (or none) and scalar options.
OptionNodes ==
    {YMap(d \o t \o o) :
        d \in StringDescriptions,
        t \in {<<>>} \cup TypeEntries(TypeStrings),
        o \in EntryLists(FlatOptions, MaxOpts, 0)}

\* Nodes that hold a nested Variable node.
NestingNodes ==
    {YMap(d \o t \o <<n>> \o o) :
        d \in StringDescriptions,
        t \in {<<>>} \cup TypeEntries({YStr("array"), YStr("object"), YStr("string"),
                                       YStr("null")}),
        n \in NestedOptions,
        o \in {<<>>, <<Entry("minItems", YInt(0))>>, <<Entry("foo", YInt(1))>>}}

\* Nodes with every shape of "type" and of "description".
ShapeNodes ==
    {YMap(d \o t \o o) :
        d \in DescriptionChoices,
        t \in {<<>>} \cup TypeEntries(TypeStrings \cup TypeOthers
                                      \cup {YSeq(q) : q \in SeqsUpTo(TypeElements, MaxTypes)}),
        o \in EntryLists(ParentOptions, 1, 0)}

\* Nodes that are no mapping.
ScalarNodes == {YStr("x"), YInt(1), YNull, YSeq(<<YStr("string")>>)}

VariableNodes == OptionNodes \cup NestingNodes \cup ShapeNodes \cup ScalarNodes

\* Variable nodes for the slots of a command and of "vars".
SlotNodes ==
    { YMap(<<>>),
      YMap(<<Entry("type", YSeq(<<YStr("integer"), YStr("string")>>))>>),
      YMap(<<Entry("type", YStr("string")), Entry("minimum", YInt(0))>>),
      YMap(<<Entry("type", YStr("null")), Entry("foo", YInt(1))>>) }

ExtraChoices == {<<>>, <<Entry("foo", YInt(1))>>}

CommandNodes ==
    {YMap(d \o s \o x) :
        d \in {<<>>, <<Entry("description", YStr("c"))>>},
        s \in {<<>>, <<Entry("result", YNull)>>}
              \cup {<<Entry("arguments", YMap(<<Entry("a", n)>>))>> : n \in SlotNodes}
              \cup {<<Entry("result", n)>> : n \in SlotNodes},
        x \in ExtraChoices}
    \cup {YStr("c")}

ErrorNodes ==
    { YMap(<<Entry("reference", YStr("r"))>>),
      YMap(<<Entry("reference", YStr("r")), Entry("foo", YInt(1))>>),
      YMap(<<>>),
      YMap(<<Entry("reference", YInt(1))>>),
      YStr("r") }

InterfaceDescriptions ==
    {<<>>, <<Entry("description", YStr("d"))>>, <<Entry("description", YInt(5))>>}

\* Interface documents about commands.
CommandDocs ==
    {YMap(d \o c \o v \o x) :
        d \in InterfaceDescriptions,
        c \in {<<>>, <<Entry("cmds", YMap(<<>>))>>}
              \cup {<<Entry("cmds", YMap(<<Entry("c", n)>>))>> : n \in CommandNodes},
        v \in {<<>>} \cup {<<Entry("vars", YMap(<<Entry("v", n)>>))>> : n \in SlotNodes},
        x \in ExtraChoices}

\* Interface documents about errors.
ErrorDocs ==
    {YMap(d \o v \o e \o x) :
        d \in InterfaceDescriptions,
        v \in {<<>>} \cup {<<Entry("vars", YMap(<<Entry("v", n)>>))>> : n \in SlotNodes},
        e \in {<<>>} \cup {<<Entry("errors", YSeq(q))>> : q \in SeqsUpTo(ErrorNodes, MaxErrors)},
        x \in ExtraChoices}

\* Interface documents about vars.
VarsDocs ==
    {YMap(d \o <<Entry("vars", YMap(<<Entry("v", n)>>))>> \o x) :
        d \in InterfaceDescriptions,
        n \in Nested(MaxDepth),
        x \in ExtraChoices}

InterfaceDocs == CommandDocs \cup ErrorDocs \cup VarsDocs \cup {YStr("x")}

(***************************************************************************)
(* The state machine: a document is given to one of the two entry points,  *)
(* which decodes it.                                                       *)
(***************************************************************************)
Pending == [pending |-> TRUE]

Init ==
    /\ pc = "ready"
    /\ out = Pending
    /\ \/ target = "Variable" /\ node \in VariableNodes
       \/ target = "Interface" /\ node \in InterfaceDocs

\* Variable::deserialize
DeserializeVariable ==
    /\ pc = "ready"
    /\ target = "Variable"
    /\ out' = VariableDeserialize(node)
    /\ pc' = "done"
    /\ UNCHANGED <<target, node>>

\* Interface::deserialize
DeserializeInterface ==
    /\ pc = "ready"
    /\ target = "Interface"
    /\ out' = InterfaceDeserialize(node)
    /\ pc' = "done"
    /\ UNCHANGED <<target, node>>

Next == DeserializeVariable \/ DeserializeInterface

Spec == Init /\ [][Next]_vars

(***************************************************************************)
(* What the claims speak of.                                               *)
(***************************************************************************)
DecodedVariable == pc = "done" /\ target = "Variable"

DecodedInterface == pc = "done" /\ target = "Interface"

IsMapping(v) == v.k = "mapping"

Has(v, key) == v.k = "mapping" /\ ContainsKey(v.m, key)

KeysOf(v) == {v.m[i].key : i \in 1..Len(v.m)}

\* The node without one of its keys, the other entries in their order.
Without(v, key) ==
    LET Other(e) == e.key # key
    IN  YMap(SelectSeq(v.m, Other))

\* The option fields of a kind; null and boolean have none.
OptionKeys(kind) ==
    IF IsUnitVariant(kind) THEN {} ELSE FieldNames(FieldsOf(OptionsOf(kind)))

SameOutcome(a, b) == a.ok = b.ok /\ (a.ok => a.val = b.val)

DescriptionError == Err("'description' is not a String'", "")

TypeShapeError == Err("'type' must be a sequence or a string.", "")

MappingError == Err("Variable must be a mapping", "")

\* The documented value of an option field that is omitted.
DocumentedDefault(key) ==
    CASE key = "additionalProperties" -> FALSE
      [] key \in {"required", "properties"} -> {}
      [] OTHER -> None

\* A Type of the kind with every option unset.
BareType(kind) ==
    IF IsUnitVariant(kind) THEN [kind |-> VariantOf(kind)]
    ELSE [kind |-> VariantOf(kind),
          opts |-> [key \in OptionKeys(kind) |-> DocumentedDefault(key)]]

BareObject ==
    [kind |-> "Object",
     opts |-> ("properties" :> {} @@ "required" :> {}
               @@ "additionalProperties" :> FALSE @@ "$ref" :> None)]

BareString ==
    [kind |-> "String",
     opts |-> ("pattern" :> None @@ "format" :> None @@ "maxLength" :> None
               @@ "minLength" :> None @@ "enum" :> None @@ "default" :> None
               @@ "$ref" :> None)]

IsKindName(v) == v.k = "string" /\ v.s \in TypeNames

IsNumber(v) == v.k \in {"int", "float"}

IsCount(v) == v.k = "int" /\ v.n >= 0

IsStrings(v) == v.k = "sequence" /\ \A i \in 1..Len(v.q) : v.q[i].k = "string"

\* A value of the type the data model gives the option field of the kind.
WellTyped(kind, key, v) ==
    CASE key \in {"pattern", "$ref"} -> v.k = "string"
      [] key = "format" -> v = YStr("date-time")
      [] key \in {"maxLength", "minLength", "minItems", "maxItems"} -> IsCount(v)
      [] key \in {"enum", "required"} -> IsStrings(v)
      [] key = "additionalProperties" -> v.k = "bool"
      [] key \in {"minimum", "maximum"} ->
            IF kind = "number" THEN IsNumber(v) ELSE v.k = "int"
      [] key = "default" ->
            CASE kind = "string" -> v.k = "string"
              [] kind = "number" -> IsNumber(v)
              [] OTHER -> v.k = "int"
      [] key = "items" -> VariableDeserialize(v).ok
      [] key = "properties" ->
            /\ v.k = "mapping"
            /\ \A i \in 1..Len(v.m) : VariableDeserialize(v.m[i].val).ok
      [] OTHER -> FALSE

AsF64(v) == IF v.k = "int" THEN F64(v.n, FALSE) ELSE F64(v.h, TRUE)

\* The value an option field of the kind retains from its source value.
Retained(kind, key, v) ==
    CASE key \in {"pattern", "$ref"} -> Some(v.s)
      [] key = "format" -> Some("DateTime")
      [] key \in {"maxLength", "minLength", "minItems", "maxItems"} -> Some(v.n)
      [] key = "enum" -> Some([i \in 1..Len(v.q) |-> v.q[i].s])
      [] key = "required" -> {v.q[i].s : i \in 1..Len(v.q)}
      [] key = "additionalProperties" -> v.b
      [] key \in {"minimum", "maximum"} ->
            IF kind = "number" THEN Some(AsF64(v)) ELSE Some(v.n)
      [] key = "default" ->
            CASE kind = "string" -> Some(v.s)
              [] kind = "number" -> Some(AsF64(v))
              [] OTHER -> Some(v.n)
      [] key = "items" -> Some(VariableDeserialize(v).val)
      [] key = "properties" ->
            {Entry(v.m[i].key, VariableDeserialize(v.m[i].val).val) : i \in 1..Len(v.m)}

\* A valid node with a string type: a kind name, a string description if
\* any, and only well-typed option fields of the kind.
ValidSingle(v) ==
    /\ IsMapping(v)
    /\ Has(v, "type") /\ IsKindName(Get(v.m, "type"))
    /\ Has(v, "description") => Get(v.m, "description").k = "string"
    /\ \A i \in 1..Len(v.m) :
          \/ v.m[i].key \in {"description", "type"}
          \/ /\ v.m[i].key \in OptionKeys(Get(v.m, "type").s)
             /\ WellTyped(Get(v.m, "type").s, v.m[i].key, v.m[i].val)

\* The options record a valid node with a string type is to give.
ExpectedOptions(v) ==
    LET kind == Get(v.m, "type").s
    IN  [key \in OptionKeys(kind) |->
            IF Has(v, key) THEN Retained(kind, key, Get(v.m, key))
            ELSE DocumentedDefault(key)]

\* A minimal valid node {type: <kind>} with one extra key that is no option
\* field of the kind.
MinimalWithExtra(v) ==
    /\ IsMapping(v) /\ Len(v.m) = 2
    /\ Has(v, "type") /\ IsKindName(Get(v.m, "type"))
    /\ \E i \in 1..2 :
          v.m[i].key \notin OptionKeys(Get(v.m, "type").s) \cup {"type", "description"}

\* A node whose type is a sequence of kind names.
SequenceOfKinds(v) ==
    /\ Has(v, "type") /\ Get(v.m, "type").k = "sequence"
    /\ \A i \in 1..Len(Get(v.m, "type").q) : IsKindName(Get(v.m, "type").q[i])

StringDescription(v) == Has(v, "description") => Get(v.m, "description").k = "string"

ExpectedMultiple(v) ==
    Multiple([i \in 1..Len(Get(v.m, "type").q) |-> BareType(Get(v.m, "type").q[i].s)])

(***************************************************************************)
(* The claims.                                                             *)
(***************************************************************************)

\* C1: for each of the seven kinds, a minimal node {type: <kind>} with one
\* extra key that is no option field of the kind fails to decode.
C1_ExtraKeyFails ==
    (DecodedVariable /\ MinimalWithExtra(node)) => ~out.ok

\* The part of C1 the decoders satisfy: the same, for the five kinds that
\* have an options record.
C1_ExtraKeyFailsWithOptions ==
    (DecodedVariable /\ MinimalWithExtra(node)
     /\ ~IsUnitVariant(Get(node.m, "type").s)) => ~out.ok

\* C2, as stated: every node whose type is a sequence of kind names decodes
\* to Multiple of the bare Types of the named kinds, in order, whatever
\* other fields the node holds.
C2_SequenceAlwaysDecodes ==
    (DecodedVariable /\ SequenceOfKinds(node)) =>
        out.ok /\ out.val.arg = ExpectedMultiple(node)

\* C2, amended: every node whose type is a sequence of kind names and whose
\* description, if any, is a string decodes to Multiple of the bare Types of
\* the named kinds, in order, whatever option fields the node holds.
C2_SequenceDecodes ==
    (DecodedVariable /\ SequenceOfKinds(node) /\ StringDescription(node)) =>
        /\ out.ok
        /\ out.val.arg = ExpectedMultiple(node)
        /\ out.val.arg.tag = "Multiple"
        /\ Len(out.val.arg.types) = Len(Get(node.m, "type").q)

C2_Witness ==
    /\ DecodedVariable /\ SequenceOfKinds(node)
    /\ Get(node.m, "type").q = <<YStr("integer"), YStr("string")>>
    /\ Has(node, "minimum")
    /\ out.ok /\ out.val.arg.types[2] = BareString

\* C3: a node without a type key decodes as the same node with the key
\* type: "object" added (the same value, or a failure in both cases), and
\* the empty mapping decodes to a bare closed object without description.
C3_OmittedTypeIsObject ==
    (DecodedVariable /\ IsMapping(node) /\ ~Has(node, "type")) =>
        /\ SameOutcome(out, VariableDeserialize(
                                YMap(Append(node.m, Entry("type", YStr("object"))))))
        /\ SameOutcome(out, VariableDeserialize(
                                YMap(<<Entry("type", YStr("object"))>> \o node.m)))
        /\ node = YMap(<<>>) =>
              out = Ok([description |-> None, arg |-> Single(BareObject)])

C3_Witness ==
    /\ DecodedVariable /\ IsMapping(node) /\ ~Has(node, "type")
    /\ Has(node, "$ref") /\ Has(node, "additionalProperties")
    /\ out.ok /\ out.val.arg.ty.kind = "Object"

\* C4: a valid node with a string type decodes to Single of a Type of the
\* named kind; every option field of the node is retained with its source
\* value and every omitted one has its documented default; the description
\* is the node's, or None.
C4_SingleRetainsOptions ==
    (DecodedVariable /\ ValidSingle(node)) =>
        /\ out.ok
        /\ out.val.arg.tag = "Single"
        /\ out.val.arg.ty.kind = VariantOf(Get(node.m, "type").s)
        /\ ~IsUnitVariant(Get(node.m, "type").s) =>
              out.val.arg.ty.opts = ExpectedOptions(node)
        /\ out.val.description =
              IF Has(node, "description")
              THEN Some(Get(node.m, "description").s)
              ELSE None

C4_Witness ==
    /\ DecodedVariable
    /\ node = YMap(<<Entry("description", YStr("x")), Entry("type", YStr("integer")),
                     Entry("minimum", YInt(0)), Entry("maximum", YInt(10))>>)
    /\ out = Ok([description |-> Some("x"),
                 arg |-> Single([kind |-> "Integer",
                                 opts |-> [minimum |-> Some(0), maximum |-> Some(10),
                                           default |-> None]])])

\* A type that is present and neither a string nor a sequence.
OtherShapedType(v) ==
    Has(v, "type") /\ Get(v.m, "type").k \notin {"string", "sequence"}

\* A string type that is no kind name, or a sequence type with an element
\* that is no kind name.
UnrecognizedKind(v) ==
    /\ Has(v, "type")
    /\ \/ Get(v.m, "type").k = "string" /\ ~IsKindName(Get(v.m, "type"))
       \/ /\ Get(v.m, "type").k = "sequence"
          /\ \E i \in 1..Len(Get(v.m, "type").q) : ~IsKindName(Get(v.m, "type").q[i])

\* C5, as stated: a type that is neither a string nor a sequence fails the
\* decode with the reason "'type' must be a sequence or a string.", and a
\* type that names an unrecognized kind fails the decode.
C5_TypeShapeReasonAlways ==
    /\ (DecodedVariable /\ OtherShapedType(node)) => out = TypeShapeError
    /\ (DecodedVariable /\ UnrecognizedKind(node)) => ~out.ok

\* C5, amended: a type that is neither a string nor a sequence fails the
\* decode, with the reason "'type' must be a sequence or a string." when
\* the description is absent or a string; a type that names an unrecognized
\* kind fails the decode.
C5_TypeShapeReason ==
    /\ (DecodedVariable /\ OtherShapedType(node)) =>
          /\ ~out.ok
          /\ StringDescription(node) => out = TypeShapeError
    /\ (DecodedVariable /\ UnrecognizedKind(node)) => ~out.ok

C5_Witness ==
    /\ DecodedVariable /\ Has(node, "description")
    /\ Has(node, "type") /\ Get(node.m, "type") = YInt(42)
    /\ out = TypeShapeError

\* C6: a description that is no string fails the decode; an absent one is
\* None and is no reason to fail; a string is Some of it, and, removed
\* before the type is decoded, it is no unknown field of the kind: the node
\* decodes to the same Argument as without it.
C6_DescriptionIsString ==
    (DecodedVariable /\ IsMapping(node)) =>
        /\ (Has(node, "description") /\ Get(node.m, "description").k # "string") =>
              out = DescriptionError
        /\ ~Has(node, "description") =>
              /\ out # DescriptionError
              /\ out.ok => out.val.description = None
        /\ (Has(node, "description") /\ Get(node.m, "description").k = "string") =>
              /\ out.ok => out.val.description = Some(Get(node.m, "description").s)
              /\ out.ok = VariableDeserialize(Without(node, "description")).ok
              /\ out.ok => out.val.arg =
                              VariableDeserialize(Without(node, "description")).val.arg

C6_Witness ==
    /\ DecodedVariable /\ Has(node, "description") /\ Has(node, "pattern")
    /\ Has(node, "type") /\ Get(node.m, "type") = YStr("string")
    /\ out.ok /\ out.val.description = Some("x")

\* The records of an Interface document: the recognized fields, as the
\* document model lists them.
InterfaceKeys == {"description", "cmds", "vars", "errors"}

CommandKeys == {"description", "arguments", "result"}

ErrorEntryKeys == {"reference"}

\* The commands and the errors entries of an Interface document.
CommandsOf(v) ==
    IF Has(v, "cmds") /\ Get(v.m, "cmds").k = "mapping"
    THEN {Get(v.m, "cmds").m[i].val : i \in 1..Len(Get(v.m, "cmds").m)}
    ELSE {}

ErrorsOf(v) ==
    IF Has(v, "errors") /\ Get(v.m, "errors").k = "sequence"
    THEN {Get(v.m, "errors").q[i] : i \in 1..Len(Get(v.m, "errors").q)}
    ELSE {}

\* Some record of the document holds a key outside its recognized fields.
UnknownKeyInRecord(v) ==
    /\ IsMapping(v)
    /\ \/ ~(KeysOf(v) \subseteq InterfaceKeys)
       \/ \E c \in CommandsOf(v) : IsMapping(c) /\ ~(KeysOf(c) \subseteq CommandKeys)
       \/ \E e \in ErrorsOf(v) : IsMapping(e) /\ ~(KeysOf(e) \subseteq ErrorEntryKeys)

\* Some errors entry does not hold a reference string.
ErrorWithoutReference(v) ==
    /\ IsMapping(v)
    /\ \E e \in ErrorsOf(v) :
          ~(Has(e, "reference") /\ Get(e.m, "reference").k = "string")

\* C7: an Interface, Command or ErrorEntry mapping with a key outside the
\* record's recognized fields fails the whole Interface decode, and every
\* errors entry must hold a reference string.
C7_ClosedRecords ==
    /\ (DecodedInterface /\ UnknownKeyInRecord(node)) => ~out.ok
    /\ (DecodedInterface /\ ErrorWithoutReference(node)) => ~out.ok

\* The part of C7 the decoders satisfy: the same, for the keys of the
\* Interface and of its commands.
C7_ClosedInterfaceAndCommand ==
    /\ (DecodedInterface /\ IsMapping(node)
        /\ \/ ~(KeysOf(node) \subseteq InterfaceKeys)
           \/ \E c \in CommandsOf(node) :
                 IsMapping(c) /\ ~(KeysOf(c) \subseteq CommandKeys)) => ~out.ok
    /\ (DecodedInterface /\ ErrorWithoutReference(node)) => ~out.ok

\* The Variable nodes a Variable node hands to the Variable decoder: the
\* items of an array, the properties of an object.
OwnSlots(v) ==
    IF ~IsMapping(v) THEN {}
    ELSE LET ty == IF Has(v, "type") THEN Get(v.m, "type") ELSE YStr("object")
         IN  (IF ty = YStr("array") /\ Has(v, "items") /\ Get(v.m, "items").k # "null"
              THEN {Get(v.m, "items")} ELSE {})
             \cup
             (IF ty = YStr("object") /\ Has(v, "properties")
                 /\ Get(v.m, "properties").k = "mapping"
              THEN {Get(v.m, "properties").m[i].val :
                       i \in 1..Len(Get(v.m, "properties").m)}
              ELSE {})

\* The same, at every depth.
RECURSIVE AllSlots(_)
AllSlots(v) == OwnSlots(v) \cup UNION {AllSlots(n) : n \in OwnSlots(v)}

\* The Variable nodes of an Interface document: the vars, and the
\* arguments and the result of the commands.
ValuesOf(v, key) ==
    IF Has(v, key) /\ Get(v.m, key).k = "mapping"
    THEN {Get(v.m, key).m[i].val : i \in 1..Len(Get(v.m, key).m)}
    ELSE {}

ResultOf(c) ==
    IF Has(c, "result") /\ Get(c.m, "result").k # "null"
    THEN {Get(c.m, "result")} ELSE {}

InterfaceSlots(v) ==
    ValuesOf(v, "vars")
    \cup UNION {ValuesOf(c, "arguments") \cup ResultOf(c) : c \in CommandsOf(v)}

\* The decode of the single-key mapping of one element of a sequence type.
ElementDecode(e) == TypeDeserialize(YMap(<<Entry("type", e)>>))

FailingElements(q) == {i \in 1..Len(q) : ~ElementDecode(q[i]).ok}

\* C8: a failure of a nested Variable (an array's items, an object's
\* property, at any depth; a var, a command's argument or result) fails
\* the enclosing Variable decode and the whole Interface decode, and a
\* failure carries no value; a sequence type whose elements are decoded
\* fails with the error of the first failing element in source order.
C8_FirstFailureWins ==
    /\ (DecodedVariable /\ \E n \in AllSlots(node) : ~VariableDeserialize(n).ok) =>
          ~out.ok
    /\ (DecodedInterface /\ IsMapping(node)
        /\ \E n \in InterfaceSlots(node) :
              \/ ~VariableDeserialize(n).ok
              \/ \E d \in AllSlots(n) : ~VariableDeserialize(d).ok) =>
          ~out.ok
    /\ (pc = "done" /\ ~out.ok) => DOMAIN out = {"ok", "err", "at"}
    /\ (DecodedVariable /\ Has(node, "type") /\ Get(node.m, "type").k = "sequence"
        /\ StringDescription(node)
        /\ FailingElements(Get(node.m, "type").q) # {}) =>
          out = ElementDecode(Get(node.m, "type").q[
                                  MinOf(FailingElements(Get(node.m, "type").q))])

C8_Witness ==
    /\ DecodedVariable /\ Has(node, "type")
    /\ Get(node.m, "type") = YSeq(<<YStr("foo"), YInt(42)>>)
    /\ out = Err("unknown variant", "foo")

\* What the Variable decoder gives for node v, checked on the value r: a
\* node without type is an object, a sequence type is Multiple of the bare
\* kinds, and the items of an array and the properties of an object are
\* the decoded nested nodes, which are checked in turn.
RECURSIVE Conforms(_, _)
Conforms(v, r) ==
    /\ ~Has(v, "type") => r.arg.tag = "Single" /\ r.arg.ty.kind = "Object"
    /\ SequenceOfKinds(v) => r.arg = ExpectedMultiple(v)
    /\ (Has(v, "type") /\ Get(v.m, "type") = YStr("array") /\ Has(v, "items")
        /\ Get(v.m, "items").k # "null") =>
          /\ r.arg.ty.opts.items = Some(VariableDeserialize(Get(v.m, "items")).val)
          /\ Conforms(Get(v.m, "items"), r.arg.ty.opts.items.v)
    /\ ((~Has(v, "type") \/ Get(v.m, "type") = YStr("object")) /\ Has(v, "properties")) =>
          LET p == Get(v.m, "properties").m
          IN  /\ r.arg.ty.opts.properties =
                    {Entry(p[i].key, VariableDeserialize(p[i].val).val) : i \in 1..Len(p)}
              /\ \A e \in r.arg.ty.opts.properties :
                    \A i \in 1..Len(p) : p[i].key = e.key => Conforms(p[i].val, e.val)

\* A nested node with one option that is no field of its kind: of any
\* kind, and of a kind that has an options record.
UnknownFieldNode(v) == MinimalWithExtra(v)

UnknownOptionNode(v) ==
    MinimalWithExtra(v) /\ ~IsUnitVariant(Get(v.m, "type").s)

\* Every Variable slot is decoded by the Variable decoder, at every depth:
\* an array's items, an object's properties, the vars, the arguments and
\* the result of a command; a nested node without type is an object and
\* one with a sequence type is Multiple.
SlotsConform ==
    /\ (DecodedVariable /\ out.ok) => Conforms(node, out.val)
    /\ (DecodedInterface /\ out.ok) =>
          /\ \A i \in 1..Len(node.m) :
                node.m[i].key = "vars" =>
                    out.val.vars = {Entry(node.m[i].val.m[j].key,
                                          VariableDeserialize(node.m[i].val.m[j].val).val) :
                                       j \in 1..Len(node.m[i].val.m)}
          /\ \A e \in out.val.vars : \A n \in ValuesOf(node, "vars") : Conforms(n, e.val)
          /\ \A c \in out.val.cmds : \A d \in CommandsOf(node) :
                /\ \A a \in c.val.arguments :
                      \A n \in ValuesOf(d, "arguments") :
                          a.val = VariableDeserialize(n).val /\ Conforms(n, a.val)
                /\ \A n \in ResultOf(d) :
                      c.val.result = Some(VariableDeserialize(n).val)
                      /\ Conforms(n, c.val.result.v)

\* C9: every Variable slot is decoded by the Variable decoder, at every
\* depth; hence a nested node without type is an object, one with a
\* sequence type is Multiple, and one with a field its kind does not know
\* fails the decode.
C9_NestedDecoding ==
    /\ SlotsConform
    /\ (DecodedVariable /\ \E n \in AllSlots(node) : UnknownFieldNode(n)) => ~out.ok
    /\ (DecodedInterface /\ IsMapping(node)
        /\ \E n \in InterfaceSlots(node) : UnknownFieldNode(n)) => ~out.ok

\* The part of C9 the decoders satisfy: the same, for the nested nodes of a
\* kind that has an options record.
C9_NestedDecodingWithOptions ==
    /\ SlotsConform
    /\ (DecodedVariable /\ \E n \in AllSlots(node) : UnknownOptionNode(n)) => ~out.ok
    /\ (DecodedInterface /\ IsMapping(node)
        /\ \E n \in InterfaceSlots(node) : UnknownOptionNode(n)) => ~out.ok

C9_Witness ==
    /\ DecodedVariable
    /\ node = YMap(<<Entry("type", YStr("array")),
                     Entry("items", YMap(<<Entry("type", YStr("string"))>>))>>)
    /\ out = Ok([description |-> None,
                 arg |-> Single([kind |-> "Array",
                                 opts |-> [items |-> Some([description |-> None,
                                                           arg |-> Single(BareString)]),
                                           minItems |-> None,
                                           maxItems |-> None]])])

\* C10: the checks run in a fixed order and the first that fails gives the
\* error: a node that is no mapping fails with the mapping error; a
\* description that is no string fails with the description error,
\* whatever the type; then a type of another shape fails with the type
\* error; any other failure comes from the kind names and option fields
\* (for a node without nested Variable nodes, it is none of the three
\* errors above).
C10_CheckOrder ==
    DecodedVariable =>
        /\ ~IsMapping(node) => out = MappingError
        /\ (IsMapping(node) /\ ~StringDescription(node)) => out = DescriptionError
        /\ (IsMapping(node) /\ StringDescription(node) /\ OtherShapedType(node)) =>
              out = TypeShapeError
        /\ (IsMapping(node) /\ StringDescription(node) /\ ~OtherShapedType(node)
            /\ OwnSlots(node) = {} /\ ~out.ok) =>
              out \notin {MappingError, DescriptionError, TypeShapeError}

C10_Witness ==
    /\ DecodedVariable
    /\ Has(node, "description") /\ Get(node.m, "description") = YInt(5)
    /\ Has(node, "type") /\ Get(node.m, "type") \in {YInt(42), YStr("foo")}
    /\ out = DescriptionError

====
